---- MODULE Spec2Model ----
(***************************************************************************)
(* Model of metaflow/runner/click_api.py: the click command tree compiled  *)
(* into chainable callables (from_cli, extract_group, extract_command),    *)
(* the kwargs check of every call (_method_sanity_check) and the           *)
(* flattening of a chain of calls into command-line tokens (execute).      *)
(*                                                                         *)
(* Python values are records [t, s, n, items]: t is the Python type, s the *)
(* text of a str, n the number of an int or bool, items the elements of a  *)
(* list.  A Python dict is the sequence of its <<key, value>> pairs in     *)
(* insertion order.  The declarations below use the click types str, int   *)
(* and bool; no declaration is JSON-typed, so the json.dumps adjustment of *)
(* line 94 leaves every supplied value as it is.                           *)
(***************************************************************************)
EXTENDS Integers, Sequences, FiniteSets, TLC

VARIABLES objs, created, cmdParams, last

vars == <<objs, created, cmdParams, last>>

\* ------------------------------------------------------------------ bounds

\* The objects made in a run
MaxObjs == 2

\* The chain entries made in a run, over all objects
MaxEntries == 3

MaxKwargs == 3

MaxBindKwargs == 3

\* ----------------------------------------------------------- Python values

StrV(x) == [t |-> "str", s |-> x, n |-> 0, items |-> <<>>]

IntV(x) == [t |-> "int", s |-> "", n |-> x, items |-> <<>>]

BoolV(b) == [t |-> "bool", s |-> "", n |-> IF b THEN 1 ELSE 0, items |-> <<>>]

NoneV == [t |-> "none", s |-> "", n |-> 0, items |-> <<>>]

ListV(xs) == [t |-> "list", s |-> "", n |-> 0, items |-> xs]

Digits == <<"0", "1", "2", "3", "4", "5", "6", "7", "8", "9">>

\* str() of an int below 10; the model's ints are single digits
IntText(x) == IF x \in 0..9 THEN Digits[x + 1] ELSE "int"

\* str(v) as a Python str value
PyStr(v) ==
  CASE v.t = "str" -> v
    [] v.t = "int" -> StrV(IntText(v.n))
    [] v.t = "bool" -> StrV(IF v.n = 1 THEN "True" ELSE "False")
    [] v.t = "none" -> StrV("None")
    [] OTHER -> StrV("list")

\* v == True, v == False (True == 1 and False == 0 in Python)
PyEqTrue(v) == v.t \in {"bool", "int"} /\ v.n = 1

PyEqFalse(v) == v.t \in {"bool", "int"} /\ v.n = 0

\* ------------------------------------------------------------ Python dicts

DictKeys(d) == {d[i][1] : i \in 1..Len(d)}

DictHas(d, k) == k \in DictKeys(d)

DictGet(d, k) == d[CHOOSE i \in 1..Len(d) : d[i][1] = k][2]

\* d[k] = v: an existing key keeps its position, a new key goes last
DictSet(d, k, v) ==
  IF DictHas(d, k)
  THEN [i \in 1..Len(d) |-> IF d[i][1] = k THEN <<k, v>> ELSE d[i]]
  ELSE Append(d, <<k, v>>)

DictDel(d, k) == SelectSeq(d, LAMBDA p : p[1] # k)

\* ------------------------------------------------- the click command tree

\* The file handed to from_cli; it is the _API_NAME of the root class
FlowFile == "flow.py"

Option(name, opts, secondary_opts, is_bool_flag, required, multiple, type) ==
  [name |-> name, param_type |-> "Option", opts |-> opts,
   secondary_opts |-> secondary_opts, is_bool_flag |-> is_bool_flag,
   required |-> required, multiple |-> multiple, nargs |-> 1, type |-> type]

Argument(name, required, nargs, type) ==
  [name |-> name, param_type |-> "Argument", opts |-> <<name>>,
   secondary_opts |-> <<>>, is_bool_flag |-> FALSE,
   required |-> required, multiple |-> FALSE, nargs |-> nargs, type |-> type]

\* The parameter declarations of the commands, by parameter name
Param(name) ==
  CASE name = "metadata" ->
         Option(name, <<"--metadata">>, <<>>, FALSE, FALSE, FALSE, "str")
    [] name = "tags" ->
         Option(name, <<"--tags">>, <<>>, FALSE, FALSE, TRUE, "str")
    [] name = "decospecs" ->
         Option(name, <<"--decospecs">>, <<>>, FALSE, FALSE, TRUE, "str")
    [] name = "max_workers" ->
         Option(name, <<"--max-workers">>, <<>>, FALSE, FALSE, FALSE, "int")
    [] name = "alpha" ->
         Option(name, <<"--alpha">>, <<>>, FALSE, FALSE, FALSE, "int")
    [] name = "step_name" -> Argument(name, TRUE, 1, "str")
    [] name = "task_id" -> Argument(name, FALSE, 1, "str")
    [] name = "dry" ->
         Option(name, <<"--dry">>, <<>>, TRUE, FALSE, FALSE, "bool")
    [] name = "name" ->
         Option(name, <<"--name">>, <<>>, FALSE, FALSE, FALSE, "str")
    [] name = "force" ->
         Option(name, <<"--force">>, <<"--no-force">>, TRUE, TRUE, FALSE, "bool")
    [] name = "strict" ->
         Option(name, <<"--strict">>, <<>>, TRUE, TRUE, FALSE, "bool")
    [] name = "verbose" ->
         Option(name, <<"--verbose">>, <<"--no-verbose">>, TRUE, FALSE, FALSE,
                "bool")
    [] name = "labels" -> Argument(name, FALSE, -1, "str")

\* cmd_obj.params of every command before anything is compiled
InitParams ==
  [c \in {"start", "run", "step", "tag", "add"} |->
     CASE c = "start" -> <<"metadata">>
       [] c = "run" -> <<"tags", "decospecs", "max_workers">>
       [] c = "tag" -> <<"strict">>
       [] c = "add" -> <<"labels", "force", "verbose">>
       [] c = "step" -> <<"step_name", "task_id", "dry", "name">>]

CommandNames == DOMAIN InitParams

IsGroup(c) == c \in {"start", "tag"}

\* cmd_obj.commands of a group, in order
Commands(c) ==
  CASE c = "start" -> <<"run", "tag">>
    [] c = "tag" -> <<"add", "step">>
    [] OTHER -> <<>>

has_flow_params(c) == c = "run"

\* flow_cls._get_parameters(): the parameters of the flow class
FlowParameters == <<"alpha">>

\* s.strip("-") and "--%s" % k over the spellings that occur
Spellings ==
  <<<<"metadata", "--metadata">>, <<"tags", "--tags">>,
    <<"decospecs", "--decospecs">>, <<"max-workers", "--max-workers">>,
    <<"alpha", "--alpha">>, <<"dry", "--dry">>, <<"name", "--name">>,
    <<"force", "--force">>, <<"no-force", "--no-force">>,
    <<"strict", "--strict">>, <<"verbose", "--verbose">>,
    <<"no-verbose", "--no-verbose">>, <<"step_name", "--step_name">>,
    <<"task_id", "--task_id">>, <<"labels", "--labels">>>>

Strip(x) ==
  IF \E i \in 1..Len(Spellings) : Spellings[i][2] = x
  THEN Spellings[CHOOSE i \in 1..Len(Spellings) : Spellings[i][2] = x][1]
  ELSE x

Dashed(k) == Spellings[CHOOSE i \in 1..Len(Spellings) : Spellings[i][1] = k][2]

\* --------------------------------------------------------- get_annotation

get_annotation(param) ==
  [py_type |-> param.type,
   optional |-> ~param.required,
   list |-> param.multiple \/ param.nargs = -1]

\* isinstance(v, py_type); a Python bool is an int
IsInstance(v, py_type) ==
  CASE py_type = "str" -> v.t = "str"
    [] py_type = "int" -> v.t \in {"int", "bool"}
    [] py_type = "bool" -> v.t = "bool"
    [] OTHER -> FALSE

\* check_type(v, annotation) of typeguard: TRUE when no TypeCheckError
check_type(v, annotation) ==
  \/ annotation.optional /\ v.t = "none"
  \/ /\ annotation.list
     /\ v.t = "list"
     /\ \A i \in 1..Len(v.items) : IsInstance(v.items[i], annotation.py_type)
  \/ ~annotation.list /\ IsInstance(v, annotation.py_type)

\* --------------------------------------------------- extract_all_params

\* The keys of an OrderedDict filled from xs: a repeated key keeps its place
RECURSIVE OrderedKeys(_)
OrderedKeys(xs) ==
  IF xs = <<>> THEN <<>>
  ELSE LET front == OrderedKeys(SubSeq(xs, 1, Len(xs) - 1))
           x == xs[Len(xs)]
       IN IF \E i \in 1..Len(front) : front[i] = x THEN front
          ELSE Append(front, x)

\* possible_arg_params and possible_opt_params, as parameter names
extract_all_params(params) ==
  [args |-> OrderedKeys(SelectSeq(params,
              LAMBDA p : Param(p).param_type = "Argument")),
   opts |-> OrderedKeys(SelectSeq(params,
              LAMBDA p : Param(p).param_type = "Option"))]

\* ------------------------------------------------- _method_sanity_check

\* The flag that marks a boolean option as present in method_params
FlagMarker == StrV("flag")

\* The locals of the function before its first loop: method_params is
\* empty, cli_name is not yet bound, nothing is raised
SanityStart ==
  [args |-> <<>>, options |-> <<>>, cli_name |-> "", bound |-> FALSE,
   err |-> "none", about |-> ""]

Raise(st, err, about) == [st EXCEPT !.err = err, !.about = about]

\* A slip: the primary spelling is recorded for False as well
BoolCliNamePrimary(st, param, supplied_v) ==
  IF PyEqTrue(supplied_v) \/ PyEqFalse(supplied_v) THEN Strip(param.opts[1])
  ELSE st.cli_name

\* The name under which a boolean flag is recorded: opts[0] for True,
\* secondary_opts[0] for False, and for a value that is neither, the
\* cli_name left by the kwargs before it
BoolCliName(st, param, supplied_v) ==
  IF PyEqTrue(supplied_v) THEN Strip(param.opts[1])
  ELSE IF PyEqFalse(supplied_v) THEN Strip(param.secondary_opts[1])
  ELSE st.cli_name

\* One pass of the loop over the supplied kwargs (lines 78-116)
SuppliedStep(st, possible, supplied_k, supplied_v) ==
  IF ~(\E i \in 1..Len(possible.args) : possible.args[i] = supplied_k)
     /\ ~(\E i \in 1..Len(possible.opts) : possible.opts[i] = supplied_k)
  THEN Raise(st, "Unknown argument", supplied_k)
  ELSE LET param == Param(supplied_k) IN
  IF ~check_type(supplied_v, get_annotation(param))
  THEN Raise(st, "Invalid type", supplied_k)
  ELSE IF param.param_type = "Argument"
  THEN LET cli_name == Strip(param.opts[1])
       IN [st EXCEPT !.args = DictSet(st.args, cli_name, supplied_v),
                     !.cli_name = cli_name, !.bound = TRUE]
  ELSE IF param.is_bool_flag
  THEN IF PyEqFalse(supplied_v) /\ param.secondary_opts = <<>>
       THEN st
       ELSE IF ~PyEqTrue(supplied_v) /\ ~PyEqFalse(supplied_v) /\ ~st.bound
       THEN Raise(st, "UnboundLocalError", "cli_name")
       ELSE LET cli_name == BoolCliName(st, param, supplied_v)
            IN [st EXCEPT !.options = DictSet(st.options, cli_name, FlagMarker),
                          !.cli_name = cli_name, !.bound = TRUE]
  ELSE LET cli_name == Strip(param.opts[1])
       IN [st EXCEPT !.options = DictSet(st.options, cli_name, supplied_v),
                     !.cli_name = cli_name, !.bound = TRUE]

\* The loop over kwargs.items(): it stops at the first exception
RECURSIVE SuppliedLoop(_, _, _)
SuppliedLoop(st, possible, kwargs) ==
  IF kwargs = <<>> \/ st.err # "none" THEN st
  ELSE SuppliedLoop(SuppliedStep(st, possible, kwargs[1][1], kwargs[1][2]),
                    possible, Tail(kwargs))

\* The loop over possible_params (lines 119-125): the first required
\* parameter whose opts[0] is in neither dict raises
RECURSIVE RequiredLoop(_, _)
RequiredLoop(st, possible_params) ==
  IF possible_params = <<>> \/ st.err # "none" THEN st
  ELSE LET possible_v == Param(possible_params[1])
           cli_name == Strip(possible_v.opts[1])
       IN IF ~DictHas(st.args, cli_name) /\ ~DictHas(st.options, cli_name)
             /\ possible_v.required
          THEN Raise(st, "Missing argument", cli_name)
          ELSE RequiredLoop(st, Tail(possible_params))

\* _method_sanity_check: err is "none" and method_params is the dict
\* {"args": ..., "options": ...}, or err names the exception raised
_method_sanity_check(possible, kwargs) ==
  LET st == RequiredLoop(SuppliedLoop(SanityStart, possible, kwargs),
                         possible.args \o possible.opts)
  IN IF st.err = "none"
     THEN [err |-> "none", about |-> "",
           method_params |-> <<<<"args", st.args>>, <<"options", st.options>>>>]
     ELSE [err |-> st.err, about |-> st.about, method_params |-> <<>>]

\* ------------------------------------------------------------- execute

\* The tokens of the positional values: a list gives its elements
RECURSIVE EmitArgs(_)
EmitArgs(args) ==
  IF args = <<>> THEN <<>>
  ELSE LET v == args[1][2]
       IN (IF v.t = "list" THEN v.items ELSE <<v>>) \o EmitArgs(Tail(args))

\* A slip: "--k" once, then every element
EmitRepeatedOnce(k, items) ==
  <<StrV(Dashed(k))>> \o [i \in 1..Len(items) |-> PyStr(items[i])]

\* "--k", str(i) for every element of a list
RECURSIVE EmitRepeated(_, _)
EmitRepeated(k, items) ==
  IF items = <<>> THEN <<>>
  ELSE <<StrV(Dashed(k)), PyStr(items[1])>> \o EmitRepeated(k, Tail(items))

\* "--k" and, unless v is the text "flag", str(v)
EmitScalar(k, v) ==
  IF v # FlagMarker THEN <<StrV(Dashed(k)), PyStr(v)>> ELSE <<StrV(Dashed(k))>>

RECURSIVE EmitOptions(_)
EmitOptions(options) ==
  IF options = <<>> THEN <<>>
  ELSE LET k == options[1][1]
           v == options[1][2]
       IN (IF v.t = "list" THEN EmitRepeated(k, v.items) ELSE EmitScalar(k, v))
          \o EmitOptions(Tail(options))

\* params.pop(k, {}): the value taken
Pop(params, k) == IF DictHas(params, k) THEN DictGet(params, k) ELSE <<>>

\* What the pops of lines 322-323 leave of the params dict of an entry
ParamsAfterPop(params) == DictDel(DictDel(params, "args"), "options")

\* The components one entry {cmd: params} of the chain adds
EmitEntry(entry) ==
  <<StrV(entry.cmd)>> \o EmitArgs(Pop(entry.params, "args"))
                      \o EmitOptions(Pop(entry.params, "options"))

RECURSIVE EmitChain(_)
EmitChain(chain) ==
  IF chain = <<>> THEN <<>>
  ELSE EmitEntry(chain[1]) \o EmitChain(Tail(chain))

\* The chain of an object after execute walked it
ChainAfterExecute(chain) ==
  [i \in 1..Len(chain) |->
     [chain[i] EXCEPT !.params = ParamsAfterPop(chain[i].params)]]

\* The parents of object o, the root first (lines 307-313)
RECURSIVE Parents(_, _)
Parents(heap, o) ==
  IF heap[o].parent = 0 THEN <<>>
  ELSE Append(Parents(heap, heap[o].parent), heap[o].parent)

RECURSIVE FinalChain(_, _)
FinalChain(heap, path) ==
  IF path = <<>> THEN <<>>
  ELSE heap[path[1]].chain \o FinalChain(heap, Tail(path))

\* execute on object o of the heap: the components returned, and the heap
\* it leaves, where every dict of final_chain has lost "args" and "options"
execute(heap, o) ==
  LET path == Append(Parents(heap, o), o)
      onPath == {path[i] : i \in 1..Len(path)}
  IN [components |-> EmitChain(FinalChain(heap, path)),
      heap |-> [p \in 1..Len(heap) |->
                  IF p \in onPath
                  THEN [heap[p] EXCEPT !.chain = ChainAfterExecute(heap[p].chain)]
                  ELSE heap[p]]]

\* ------------------------------------- extract_command, extract_group

\* cmd_obj.params after "for p in flow_parameters[::-1]: params.insert(0, ..)"
RECURSIVE InsertFlowParams(_, _)
InsertFlowParams(params, flow_parameters) ==
  IF flow_parameters = <<>> THEN params
  ELSE InsertFlowParams(<<flow_parameters[Len(flow_parameters)]>> \o params,
                        SubSeq(flow_parameters, 1, Len(flow_parameters) - 1))

\* extract_command: the params it leaves on the click commands and the
\* callable m, which keeps the possible parameters of its closure
extract_command(cp, c, flow_parameters) ==
  LET params == IF has_flow_params(c)
                THEN InsertFlowParams(cp[c], flow_parameters)
                ELSE cp[c]
  IN [cp |-> [cp EXCEPT ![c] = params],
      m |-> [name |-> c, kind |-> "command",
             possible |-> extract_all_params(params), members |-> <<>>]]

\* extract_group: it compiles every sub command into the class of the group
RECURSIVE extract_group(_, _, _)
RECURSIVE ExtractSubCommands(_, _, _, _)
ExtractSubCommands(cp, subs, flow_parameters, members) ==
  IF subs = <<>> THEN [cp |-> cp, members |-> members]
  ELSE LET r == IF IsGroup(subs[1])
                THEN extract_group(cp, subs[1], flow_parameters)
                ELSE extract_command(cp, subs[1], flow_parameters)
       IN ExtractSubCommands(r.cp, Tail(subs), flow_parameters,
                             Append(members, r.m))

extract_group(cp, c, flow_parameters) ==
  LET r == ExtractSubCommands(cp, Commands(c), flow_parameters, <<>>)
  IN [cp |-> r.cp,
      m |-> [name |-> c, kind |-> "group",
             possible |-> extract_all_params(r.cp[c]), members |-> r.members]]

\* ------------------------------------------------------ the callers' inputs

\* The values a caller of the object machine supplies for a kwarg; 7 is
\* no str, and no command declares the last name
Inputs(k) ==
  CASE k = "metadata" -> {StrV("local")}
    [] k = "tags" -> {ListV(<<StrV("abc"), StrV("def")>>)}
    [] k = "decospecs" -> {ListV(<<StrV("kubernetes")>>)}
    [] k = "max_workers" -> {IntV(5)}
    [] k = "alpha" -> {IntV(3)}
    [] k = "step_name" -> {StrV("a")}
    [] k = "task_id" -> {StrV("b"), IntV(7)}
    [] k = "dry" -> {BoolV(TRUE)}
    [] k = "name" -> {StrV("x")}
    [] k = "force" -> {BoolV(TRUE), BoolV(FALSE)}
    [] k = "strict" -> {BoolV(TRUE)}
    [] k = "verbose" -> {BoolV(TRUE)}
    [] k = "labels" -> {ListV(<<StrV("x"), StrV("y")>>)}
    [] OTHER -> {StrV("a")}

\* The values tried on one binding: those, and the other value of every
\* bool, None for the optional flag, and the text "flag" for a str
BindInputs(k) ==
  Inputs(k) \cup
    (CASE k = "dry" -> {BoolV(FALSE), NoneV}
       [] k = "name" -> {StrV("flag")}
       [] k = "strict" -> {BoolV(FALSE)}
       [] k = "verbose" -> {BoolV(FALSE), NoneV}
       [] OTHER -> {})

\* The kwargs tried on a command: its parameters, the flow parameters where
\* they are inserted, and a name that no command declares
KwargNames(c) ==
  {InitParams[c][i] : i \in 1..Len(InitParams[c])}
    \cup (IF has_flow_params(c)
          THEN {FlowParameters[i] : i \in 1..Len(FlowParameters)} ELSE {})
    \cup {"bogus"}

KwargPairs(c) == UNION {{<<k, v>> : v \in Inputs(k)} : k \in KwargNames(c)}

BindPairs(c) == UNION {{<<k, v>> : v \in BindInputs(k)} : k \in KwargNames(c)}

\* Is xs a subsequence of ys (the order of ys kept)
RECURSIVE IsSubSeq(_, _)
IsSubSeq(xs, ys) ==
  IF xs = <<>> THEN TRUE
  ELSE IF ys = <<>> THEN FALSE
  ELSE IF xs[1] = ys[1] THEN IsSubSeq(Tail(xs), Tail(ys))
  ELSE IsSubSeq(xs, Tail(ys))

\* The names of KwargNames(c) as a signature reader would write them:
\* flow parameters, the declared parameters, then the undeclared name
SignatureOrder(c) ==
  (IF has_flow_params(c) THEN FlowParameters ELSE <<>>)
    \o InitParams[c] \o <<"bogus">>

\* Every list of up to n of the pairs with no name twice
RECURSIVE KwargsUpTo(_, _)
KwargsUpTo(pairs, n) ==
  IF n = 0 THEN {<<>>}
  ELSE LET shorter == KwargsUpTo(pairs, n - 1)
       IN shorter \cup
          UNION {UNION {IF \E i \in 1..Len(kw) : kw[i][1] = p[1] THEN {}
                        ELSE {Append(kw, p)} : p \in pairs} :
                 kw \in shorter}

\* **kwargs of a call of the object machine: up to MaxKwargs pairs, no name
\* twice, written in the order of the signature
Kwargs ==
  [c \in CommandNames |->
     UNION {IF IsSubSeq([i \in 1..Len(kw) |-> kw[i][1]], SignatureOrder(c))
            THEN {kw} ELSE {} : kw \in KwargsUpTo(KwargPairs(c), MaxKwargs)}]

\* **kwargs of one binding: up to MaxBindKwargs pairs in every order
BindKwargs ==
  [c \in CommandNames |-> KwargsUpTo(BindPairs(c), MaxBindKwargs)]

\* ------------------------------------------------------ state and actions

\* objs: the MetaflowAPI objects made so far, each with its class name, its
\*   _parent (0 for None), its _chain, the callables it can reach (set on
\*   the instance by _lazy_load_command for a root, in the class dict for a
\*   group) and whether _cached_computed_parameters is set.
\* created: for every object, the chain entry __init__ recorded for it.
\* cmdParams: the params list of every click command.
\* last: the call that has just returned or raised, until its caller has
\*   taken the result; op is "none" between calls.

NoCall ==
  [op |-> "none", obj |-> 0, name |-> "", kwargs |-> <<>>, err |-> "none",
   about |-> "", method_params |-> <<>>, components |-> <<>>]

Init ==
  /\ objs = <<>>
  /\ created = <<>>
  /\ cmdParams = InitParams
  /\ last = NoCall

\* from_cli: extract_all_params(cli_collection), kept by the closure of m
RootPossible == extract_all_params(InitParams["start"])

\* MetaflowAPI.__init__: the _chain of the new object
InitChain(api_name, kwargs) == <<[cmd |-> api_name, params |-> kwargs]>>

\* MetaflowAPI.__init__: the new object
NewObject(cls, parent, api_name, kwargs, members) ==
  [cls |-> cls, parent |-> parent, chain |-> InitChain(api_name, kwargs),
   members |-> members, cached |-> FALSE]

\* The chain entries of the first n objects
RECURSIVE Entries(_, _)
Entries(heap, n) ==
  IF n = 0 THEN 0 ELSE Len(heap[n].chain) + Entries(heap, n - 1)

HasMember(o, name) ==
  \E i \in 1..Len(objs[o].members) : objs[o].members[i].name = name

Member(o, name) ==
  objs[o].members[CHOOSE i \in 1..Len(objs[o].members) :
                    objs[o].members[i].name = name]

\* from_cli._method: api(**kwargs) makes a root object
ApiCall(kwargs) ==
  /\ last.op = "none"
  /\ \E r \in {_method_sanity_check(RootPossible, kwargs)} :
     /\ r.err = "none" => Len(objs) < MaxObjs /\ Entries(objs, Len(objs)) < MaxEntries
     /\ objs' = IF r.err = "none"
                THEN Append(objs, NewObject("start", 0, FlowFile,
                                            r.method_params, <<>>))
                ELSE objs
     /\ created' = IF r.err = "none"
                   THEN Append(created, InitChain(FlowFile, r.method_params)[1])
                   ELSE created
     /\ last' = [op |-> "api", obj |-> 0, name |-> "start", kwargs |-> kwargs,
                 err |-> r.err, about |-> r.about,
                 method_params |-> r.method_params, components |-> <<>>]
     /\ UNCHANGED cmdParams

\* _lazy_load_command: the first access of member name on root object o
GetAttr(o, name) ==
  LET r == IF IsGroup(name)
           THEN extract_group(cmdParams, name, FlowParameters)
           ELSE extract_command(cmdParams, name, FlowParameters)
  IN /\ last.op = "none"
     /\ objs[o].parent = 0
     /\ ~HasMember(o, name)
     /\ cmdParams' = r.cp
     /\ objs' = [objs EXCEPT ![o].members = Append(@, r.m),
                             ![o].cached = TRUE]
     /\ last' = [NoCall EXCEPT !.op = "getattr", !.obj = o, !.name = name]
     /\ UNCHANGED created

\* extract_group._method: o.name(**kwargs) makes an object one level deeper
GroupCall(o, name, kwargs) ==
  /\ last.op = "none"
  /\ Member(o, name).kind = "group"
  /\ \E m \in {Member(o, name)} :
     \E r \in {_method_sanity_check(m.possible, kwargs)} :
     /\ r.err = "none" => Len(objs) < MaxObjs /\ Entries(objs, Len(objs)) < MaxEntries
     /\ objs' = IF r.err = "none"
                THEN Append(objs, NewObject(name, o, name, r.method_params,
                                            m.members))
                ELSE objs
     /\ created' = IF r.err = "none"
                   THEN Append(created, InitChain(name, r.method_params)[1])
                   ELSE created
     /\ last' = [op |-> "group", obj |-> o, name |-> name, kwargs |-> kwargs,
                 err |-> r.err, about |-> r.about,
                 method_params |-> r.method_params, components |-> <<>>]
     /\ UNCHANGED cmdParams

\* A slip: the entry is appended before the kwargs are checked
ChainForCommandEager(chain, name, r) ==
  Append(chain, [cmd |-> name, params |-> r.method_params])

\* The _chain of _self when _method of extract_command gets to execute:
\* the check raises before the append, so a refused call appends nothing
ChainForCommand(chain, name, r) ==
  IF r.err = "none"
  THEN Append(chain, [cmd |-> name, params |-> r.method_params])
  ELSE chain

\* extract_command._method: o.name(**kwargs) appends to the chain of o and
\* returns o.execute()
CommandCall(o, name, kwargs) ==
  /\ last.op = "none"
  /\ Member(o, name).kind = "command"
  /\ \E r \in {_method_sanity_check(Member(o, name).possible, kwargs)} :
     \E heap \in {[objs EXCEPT ![o].chain = ChainForCommand(@, name, r)]} :
     \E x \in {execute(heap, o)} :
     /\ r.err = "none" => Entries(objs, Len(objs)) < MaxEntries
     /\ objs' = IF r.err = "none" THEN x.heap ELSE heap
     /\ last' = [op |-> "command", obj |-> o, name |-> name, kwargs |-> kwargs,
                 err |-> r.err, about |-> r.about,
                 method_params |-> r.method_params,
                 components |-> IF r.err = "none" THEN x.components ELSE <<>>]
     /\ UNCHANGED <<created, cmdParams>>

\* The caller takes what the call returned (or catches what it raised)
Return ==
  /\ last.op \notin {"none", "input"}
  /\ last' = NoCall
  /\ UNCHANGED <<objs, created, cmdParams>>

Next ==
  \/ \E kwargs \in Kwargs["start"] : ApiCall(kwargs)
  \/ \E o \in 1..Len(objs) : \E name \in {"run", "tag"} : GetAttr(o, name)
  \/ \E o \in 1..Len(objs) : \E name \in {"tag"} :
       HasMember(o, name) /\ \E kwargs \in Kwargs[name] : GroupCall(o, name, kwargs)
  \/ \E o \in 1..Len(objs) : \E name \in {"run", "add", "step"} :
       HasMember(o, name) /\ \E kwargs \in Kwargs[name] : CommandCall(o, name, kwargs)
  \/ Return

Spec == Init /\ [][Next]_vars

\* ------------------------------------------- one binding, one level

\* The callable of command c as it is first compiled
Compiled(c) ==
  IF IsGroup(c) THEN extract_group(InitParams, c, FlowParameters).m
  ELSE extract_command(InitParams, c, FlowParameters).m

\* The possible parameters the callable of c checks its kwargs against
PossibleOf(c) == IF c = "start" THEN RootPossible ELSE Compiled(c).possible

\* The name the chain entry of a call of c carries
ApiName(c) == IF c = "start" THEN FlowFile ELSE c

\* A caller has chosen a command and its kwargs; nothing is made yet
InitBind ==
  /\ objs = <<>>
  /\ created = <<>>
  /\ cmdParams = InitParams
  /\ \E c \in CommandNames : \E kwargs \in BindKwargs[c] :
       last = [NoCall EXCEPT !.op = "input", !.name = c, !.kwargs = kwargs]

\* _method_sanity_check on the chosen kwargs, and the components execute
\* gives for the chain entry that holds the method_params
BindLevel ==
  /\ last.op = "input"
  /\ \E r \in {_method_sanity_check(PossibleOf(last.name), last.kwargs)} :
       last' = [last EXCEPT
                  !.op = "bind", !.err = r.err, !.about = r.about,
                  !.method_params = r.method_params,
                  !.components =
                     IF r.err = "none"
                     THEN EmitEntry([cmd |-> ApiName(last.name),
                                     params |-> r.method_params])
                     ELSE <<>>]
  /\ UNCHANGED <<objs, created, cmdParams>>

SpecBind == InitBind /\ [][BindLevel]_vars

\* ---------------------------------------------- claims on one binding

\* A binding was made: the kwargs passed the check
Bound == last.op = "bind" /\ last.err = "none"

Supplied == {last.kwargs[i][1] : i \in 1..Len(last.kwargs)}

Count(tokens, t) == Cardinality({j \in 1..Len(tokens) : tokens[j] = t})

IsFlagToken(t) == \E i \in 1..Len(Spellings) : t = StrV(Spellings[i][2])

BindingArgs == DictGet(last.method_params, "args")

BindingOptions == DictGet(last.method_params, "options")

\* The declared names of the possible parameters of the command bound
DeclaredNames ==
  {PossibleOf(last.name).args[i] : i \in 1..Len(PossibleOf(last.name).args)}
    \cup {PossibleOf(last.name).opts[i] : i \in 1..Len(PossibleOf(last.name).opts)}

\* All supplied names are declared and all supplied values type-valid
ValidKwargs ==
  /\ Supplied \subseteq DeclaredNames
  /\ \A i \in 1..Len(last.kwargs) :
       check_type(last.kwargs[i][2], get_annotation(Param(last.kwargs[i][1])))

\* C4 (as claimed): with declared names and type-valid values only, the
\* binding fails with "Missing argument" when some required declaration is
\* not among the supplied kwargs, and succeeds whenever all of them are,
\* whatever the values (stated for the kwargs that supply no None).
C4_RequiredEnforcement ==
  (last.op = "bind" /\ ValidKwargs
     /\ \A i \in 1..Len(last.kwargs) : last.kwargs[i][2] # NoneV) =>
     LET missing == {k \in DeclaredNames : Param(k).required} \ Supplied
     IN /\ missing # {} => last.err = "Missing argument"
        /\ missing = {} => last.err = "none"

\* C5 (as claimed): the binding holds the positional values in declaration
\* order and the level emits them in that order, before every flag token,
\* in whatever order the kwargs were supplied.
C5_PositionalOrder ==
  Bound =>
     LET declared == PossibleOf(last.name).args
         held == [i \in 1..Len(BindingArgs) |-> BindingArgs[i][1]]
         inOrder == SelectSeq(declared, LAMBDA k : k \in Supplied)
         values == [i \in 1..Len(inOrder) |->
                      DictGet(last.kwargs, inOrder[i])]
         n == Len(EmitArgs([i \in 1..Len(inOrder) |-> <<inOrder[i], values[i]>>]))
     IN /\ held = inOrder
        /\ SubSeq(last.components, 2, n + 1)
             = EmitArgs([i \in 1..Len(inOrder) |-> <<inOrder[i], values[i]>>])
        /\ \A j \in 1..Len(last.components) :
             IsFlagToken(last.components[j]) => j > n + 1

\* C7: in the tokens of a level, a boolean flag supplied True gives its
\* primary spelling once and its secondary spelling never; supplied False it
\* gives the secondary spelling once when one is declared and nothing when
\* none is; either way the token after it, if any, is another flag and not a
\* value.
C7_BooleanPolarity ==
  Bound =>
     \A i \in 1..Len(last.kwargs) :
       LET p == Param(last.kwargs[i][1])
           v == last.kwargs[i][2]
           primary == StrV(p.opts[1])
           secondary == {StrV(p.secondary_opts[j]) : j \in 1..Len(p.secondary_opts)}
           toks == last.components
       IN (p.is_bool_flag /\ v \in {BoolV(TRUE), BoolV(FALSE)}) =>
            /\ v = BoolV(TRUE) =>
                 Count(toks, primary) = 1 /\ \A t \in secondary : Count(toks, t) = 0
            /\ (v = BoolV(FALSE) /\ secondary # {}) =>
                 Count(toks, primary) = 0
                 /\ Count(toks, StrV(p.secondary_opts[1])) = 1
            /\ (v = BoolV(FALSE) /\ secondary = {}) => Count(toks, primary) = 0
            /\ \A j \in 1..Len(toks) :
                 toks[j] \in {primary} \cup secondary =>
                   j = Len(toks) \/ IsFlagToken(toks[j + 1])

\* C7 witness: a binding with one flag supplied True, one supplied False
\* that has a secondary spelling, and three tokens: the name and both flags
C7_Witness ==
  /\ Bound
  /\ last.name = "add"
  /\ \E i, j \in 1..Len(last.kwargs) :
       /\ last.kwargs[i] = <<"force", BoolV(TRUE)>>
       /\ last.kwargs[j] = <<"verbose", BoolV(FALSE)>>
  /\ Len(last.components) = 3

\* C7 also covers a flag supplied False with no secondary spelling
C7_WitnessOmitted ==
  /\ Bound
  /\ \E i \in 1..Len(last.kwargs) : last.kwargs[i] = <<"dry", BoolV(FALSE)>>

\* C9 (as claimed): a scalar option that is no boolean flag gives exactly
\* two tokens, its spelling and then the text of the supplied value.
C9_ScalarTwoTokens ==
  Bound =>
     \A i \in 1..Len(last.kwargs) :
       LET p == Param(last.kwargs[i][1])
           v == last.kwargs[i][2]
           toks == last.components
       IN (p.param_type = "Option" /\ ~p.is_bool_flag /\ v.t # "list") =>
            /\ Count(toks, StrV(p.opts[1])) = 1
            /\ \E j \in 1..(Len(toks) - 1) :
                 toks[j] = StrV(p.opts[1]) /\ toks[j + 1] = PyStr(v)

\* The entry a supplied kwarg is to leave in the binding, as <<dict, key,
\* value>>, or none for a False flag with no secondary spelling
EntriesOf(k, v) ==
  LET p == Param(k)
  IN IF p.param_type = "Argument" THEN {<<"args", Strip(p.opts[1]), v>>}
     ELSE IF ~p.is_bool_flag THEN {<<"options", Strip(p.opts[1]), v>>}
     ELSE IF v = BoolV(TRUE) THEN {<<"options", Strip(p.opts[1]), FlagMarker>>}
     ELSE IF v = BoolV(FALSE) /\ p.secondary_opts # <<>>
     THEN {<<"options", Strip(p.secondary_opts[1]), FlagMarker>>}
     ELSE {}

\* C10 (as claimed): every entry of a binding is the entry of one of the
\* supplied kwargs, under a name of its own declaration.
C10_KeyIntegrity ==
  Bound =>
     LET wanted == UNION {EntriesOf(last.kwargs[i][1], last.kwargs[i][2]) :
                            i \in 1..Len(last.kwargs)}
     IN /\ \A i \in 1..Len(BindingArgs) :
             <<"args", BindingArgs[i][1], BindingArgs[i][2]>> \in wanted
        /\ \A i \in 1..Len(BindingOptions) :
             <<"options", BindingOptions[i][1], BindingOptions[i][2]>> \in wanted

\* ------------------------------------------ claims on the object machine

\* A command call has returned its components
Returned == last.op = "command" /\ last.err = "none"

\* The chain entries objects p[1], p[2], ... were created with
CreatedChain(path) == [i \in 1..Len(path) |-> created[path[i]]]

\* C1 (as claimed): the components of a command call are those of the call
\* path alone: the entry every object from the root to the one called was
\* created with, then the entry of the command, whatever was called before.
C1_PathDeterminesTokens ==
  Returned =>
     last.components =
        EmitChain(CreatedChain(Append(Parents(objs, last.obj), last.obj)))
          \o EmitEntry([cmd |-> last.name, params |-> last.method_params])

\* C2 (as claimed): the chain of every object is the one entry it was
\* created with, binding included, after any calls.
C2_NodesImmutable ==
  \A o \in 1..Len(objs) : objs[o].chain = <<created[o]>>

\* The kwargs of the end-to-end example and the root it is called on
ExampleKwargs ==
  <<<<"tags", ListV(<<StrV("abc"), StrV("def")>>)>>,
    <<"decospecs", ListV(<<StrV("kubernetes")>>)>>,
    <<"max_workers", IntV(5)>>>>

ExampleRoot ==
  [cmd |-> FlowFile,
   params |-> <<<<"args", <<>>>>,
                <<"options", <<<<"metadata", StrV("local")>>>>>>>>]

ExampleTokens ==
  <<StrV("--metadata"), StrV("local"), StrV("run"), StrV("--tags"),
    StrV("abc"), StrV("--tags"), StrV("def"), StrV("--decospecs"),
    StrV("kubernetes"), StrV("--max-workers"), StrV("5")>>

\* run(tags, decospecs, max_workers) returns from a root that was made with
\* metadata=local and has not been walked by execute before
ExampleCall ==
  /\ last'.op = "command" /\ last'.name = "run" /\ last'.err = "none"
  /\ last'.kwargs = ExampleKwargs
  /\ objs[last'.obj].chain = <<ExampleRoot>>

\* C3 (as claimed): the example returns exactly the eleven tokens, the first
\* of them the first flag of the root.
C3_ExampleAsClaimed == [][ExampleCall => last'.components = ExampleTokens]_vars

\* C3 (amended): the example returns the name of the root node, which is the
\* flow file, and then exactly the eleven tokens.
C3_ExampleTokens ==
  [][ExampleCall => last'.components = <<StrV(FlowFile)>> \o ExampleTokens]_vars

\* C3 witness: the example call has returned twelve components
C3_Witness ==
  /\ Returned /\ last.name = "run" /\ last.kwargs = ExampleKwargs
  /\ created[last.obj] = ExampleRoot
  /\ Len(last.components) = 12

\* C6 (as claimed): the params list of every click command stays as it was,
\* and two compilations of one command give the same callable.
C6_MetadataReadOnly ==
  /\ cmdParams = InitParams
  /\ \A o1, o2 \in 1..Len(objs) : \A name \in CommandNames :
       (HasMember(o1, name) /\ HasMember(o2, name)) =>
          Member(o1, name) = Member(o2, name)

\* C8: a group or command call that raises for an unknown name, an invalid
\* type or a missing required parameter leaves every object as it was: no
\* object is added, and no chain, binding or member changes.
C8_FailedCallKeepsState ==
  [][(last'.op \in {"group", "command"}
      /\ last'.err \in {"Unknown argument", "Invalid type", "Missing argument"})
     => (objs' = objs /\ created' = created /\ cmdParams' = cmdParams)]_vars

\* C8 witness: a command call was refused on a group object whose root
\* still holds the binding it was created with
C8_Witness ==
  /\ last.op = "command"
  /\ last.err \in {"Unknown argument", "Invalid type", "Missing argument"}
  /\ objs[last.obj].parent # 0
  /\ objs[objs[last.obj].parent].chain = <<ExampleRoot>>

====
